---- MODULE Spec2Model ----
(***************************************************************************)
(* Model of src/src/encounter/index.ts: EncounterParser (parse,            *)
(* parsePlayers, parseHide, parseRawCreatures, parseRawCreature) and       *)
(* EncounterBlock.postprocessTable.                                        *)
(*                                                                         *)
(* JavaScript values are records [t |-> tag, v |-> payload]; strings are   *)
(* sequences of one-character strings so that the regular expressions,     *)
(* String.split, Number() and toLowerCase() of the source are computed     *)
(* character by character.                                                 *)
(***************************************************************************)
EXTENDS Integers, Sequences, FiniteSets

\* ------------------------------------------------------------------ bounds
MaxLineLen == 3
MaxEntries == 3
MaxArrayLen == 2
MaxSegments == 3

\* ------------------------------------------------------- JavaScript values
Undef == [t |-> "undef", v |-> 0]
Null == [t |-> "null", v |-> 0]
NaN == [t |-> "nan", v |-> 0]
Num(n) == [t |-> "num", v |-> n]
Str(s) == [t |-> "str", v |-> s]
Bool(b) == [t |-> "bool", v |-> b]
Arr(a) == [t |-> "arr", v |-> a]
Obj(kv) == [t |-> "obj", v |-> kv]

Digits == {"0", "1", "2", "3", "4", "5", "6", "7", "8", "9"}
WhiteSpace == {" ", "\n"}
LineTerminators == {"\n"}

DigitVal(c) ==
  CASE c = "0" -> 0 [] c = "1" -> 1 [] c = "2" -> 2 [] c = "3" -> 3
    [] c = "4" -> 4 [] c = "5" -> 5 [] c = "6" -> 6 [] c = "7" -> 7
    [] c = "8" -> 8 [] c = "9" -> 9

DigitChar(n) ==
  CASE n = 0 -> "0" [] n = 1 -> "1" [] n = 2 -> "2" [] n = 3 -> "3"
    [] n = 4 -> "4" [] n = 5 -> "5" [] n = 6 -> "6" [] n = 7 -> "7"
    [] n = 8 -> "8" [] n = 9 -> "9"

ToLowerChar(c) ==
  CASE c = "A" -> "a" [] c = "B" -> "b" [] c = "G" -> "g" [] c = "N" -> "n"
    [] c = "O" -> "o" [] c = "E" -> "e" [] c = "L" -> "l"
    [] OTHER -> c

\* String.prototype.toLowerCase
toLowerCase(s) == [k \in 1..Len(s) |-> ToLowerChar(s[k])]

AllDigits(s) == \A k \in 1..Len(s) : s[k] \in Digits

RECURSIVE DigitsToNat(_)
DigitsToNat(s) ==
  IF Len(s) = 0 THEN 0
  ELSE DigitsToNat(SubSeq(s, 1, Len(s) - 1)) * 10 + DigitVal(s[Len(s)])

RECURSIVE NatToStr(_)
\* decimal rendering of a non-negative integer, as in `${n}`
NatToStr(n) ==
  IF n < 10 THEN <<DigitChar(n)>>
  ELSE NatToStr(n \div 10) \o <<DigitChar(n % 10)>>

RECURSIVE TrimStart(_)
TrimStart(s) ==
  IF Len(s) > 0 /\ s[1] \in WhiteSpace THEN TrimStart(Tail(s)) ELSE s

RECURSIVE TrimEnd(_)
TrimEnd(s) ==
  IF Len(s) > 0 /\ s[Len(s)] \in WhiteSpace
  THEN TrimEnd(SubSeq(s, 1, Len(s) - 1)) ELSE s

Trim(s) == TrimEnd(TrimStart(s))

\* Number(string): StringToNumber of ECMAScript restricted to the characters
\* the inputs of this model use (decimal digits, an optional leading "+",
\* surrounding white space); every other text is NaN.
StringToNumber(s) ==
  LET t == Trim(s)
      u == IF Len(t) > 0 /\ t[1] = "+" THEN Tail(t) ELSE t
  IN IF Len(t) = 0 THEN Num(0)
     ELSE IF Len(u) > 0 /\ AllDigits(u) THEN Num(DigitsToNat(u))
     ELSE NaN

RECURSIVE Join(_)
\* Array.prototype.join(",") over the already stringified elements
Join(parts) ==
  IF Len(parts) = 0 THEN <<>>
  ELSE IF Len(parts) = 1 THEN parts[1]
  ELSE parts[1] \o <<",">> \o Join(Tail(parts))

RECURSIVE ToStringJS(_)
\* ToString of a value (template literals, Array.prototype.toString)
ToStringJS(x) ==
  CASE x.t = "str" -> x.v
    [] x.t = "num" -> NatToStr(x.v)
    [] x.t = "nan" -> <<"N", "a", "N">>
    [] x.t = "bool" -> IF x.v THEN <<"t", "r", "u", "e">>
                       ELSE <<"f", "a", "l", "s", "e">>
    [] x.t = "undef" -> <<"u", "n", "d", "e", "f", "i", "n", "e", "d">>
    [] x.t = "null" -> <<"n", "u", "l", "l">>
    [] x.t = "arr" ->
         Join([k \in 1..Len(x.v) |->
                 IF x.v[k].t \in {"undef", "null"} THEN <<>>
                 ELSE ToStringJS(x.v[k])])
    [] x.t = "obj" -> <<"[", "o", "b", "j", "e", "c", "t", " ",
                        "O", "b", "j", "e", "c", "t", "]">>

\* Number(x)
ToNumber(x) ==
  CASE x.t = "num" -> x
    [] x.t = "nan" -> NaN
    [] x.t = "undef" -> NaN
    [] x.t = "null" -> Num(0)
    [] x.t = "bool" -> IF x.v THEN Num(1) ELSE Num(0)
    [] x.t = "str" -> StringToNumber(x.v)
    [] x.t = "arr" -> StringToNumber(ToStringJS(x))
    [] x.t = "obj" -> NaN

\* isNaN(Number(x))
isNaN(x) == ToNumber(x).t = "nan"

\* ToBoolean(x)
Truthy(x) ==
  CASE x.t = "num" -> x.v # 0
    [] x.t = "nan" -> FALSE
    [] x.t = "undef" -> FALSE
    [] x.t = "null" -> FALSE
    [] x.t = "bool" -> x.v
    [] x.t = "str" -> Len(x.v) > 0
    [] x.t = "arr" -> TRUE
    [] x.t \in {"obj", "creature"} -> TRUE

\* typeof x
TypeOf(x) ==
  CASE x.t \in {"num", "nan"} -> "number"
    [] x.t = "undef" -> "undefined"
    [] x.t = "bool" -> "boolean"
    [] x.t = "str" -> "string"
    [] x.t \in {"null", "arr", "obj"} -> "object"

\* x == y of JavaScript (abstract equality) against a primitive y. An array or
\* object operand is first converted with ToPrimitive (its toString).
LooseEq(x, y) ==
  LET p == IF x.t \in {"arr", "obj"} THEN Str(ToStringJS(x)) ELSE x
  IN CASE p.t \in {"undef", "null"} -> y.t \in {"undef", "null"}
       [] y.t \in {"undef", "null"} -> FALSE
       [] p.t = "nan" \/ y.t = "nan" -> FALSE
       [] p.t = y.t -> p.v = y.v
       [] OTHER -> LET a == ToNumber(p)
                       b == ToNumber(y)
                   IN a.t = "num" /\ b.t = "num" /\ a.v = b.v

\* ------------------------------------------------------ regular expressions
\* length of the longest run of characters of class cls starting at s[p]
RECURSIVE RunLen(_, _, _)
RunLen(s, p, cls) ==
  IF p <= Len(s) /\ s[p] \in cls THEN 1 + RunLen(s, p + 1, cls) ELSE 0

\* length of the longest run of characters that "." matches, from s[p]
RECURSIVE DotRun(_, _)
DotRun(s, p) ==
  IF p <= Len(s) /\ s[p] \notin LineTerminators THEN 1 + DotRun(s, p + 1) ELSE 0

\* The ways /(\d+)?:?\s?(.+)/ can match s: start p, k digits in group 1
\* (k = 0: the group does not take part), c colons, w white-space characters.
MatchCandidates(s) ==
  {m \in [p : 1..Len(s), k : 0..Len(s), c : 0..1, w : 0..1] :
     /\ m.k <= RunLen(s, m.p, Digits)
     /\ m.c = 1 => (m.p + m.k <= Len(s) /\ s[m.p + m.k] = ":")
     /\ m.w = 1 => (m.p + m.k + m.c <= Len(s) /\ s[m.p + m.k + m.c] \in WhiteSpace)
     /\ DotRun(s, m.p + m.k + m.c + m.w) >= 1}

\* backtracking order: leftmost start, then each greedy quantifier longest first
Before(a, b) ==
  \/ a.p < b.p
  \/ a.p = b.p /\ a.k > b.k
  \/ a.p = b.p /\ a.k = b.k /\ a.c > b.c
  \/ a.p = b.p /\ a.k = b.k /\ a.c = b.c /\ a.w > b.w

\* raw.match(/(\d+)?:?\s?(.+)/): null, or the groups [1] and [2]
RawMatch(s) ==
  LET cands == MatchCandidates(s)
  IN IF cands = {} THEN Null
     ELSE LET m == CHOOSE a \in cands : \A b \in cands \ {a} : Before(a, b)
              q == m.p + m.k + m.c + m.w
          IN [t |-> "match",
              v |-> <<IF m.k = 0 THEN Undef ELSE Str(SubSeq(s, m.p, m.p + m.k - 1)),
                      Str(SubSeq(s, q, q + DotRun(s, q) - 1))>>]

\* /\d+d\d+/.test(s)
DiceTest(s) ==
  \E k \in 1..Len(s) :
     /\ k + 2 <= Len(s)
     /\ s[k] \in Digits /\ s[k + 1] = "d" /\ s[k + 2] \in Digits

RECURSIVE FirstComma(_, _)
\* index of the first "," of s at or after p, 0 when there is none
FirstComma(s, p) ==
  IF p > Len(s) THEN 0
  ELSE IF s[p] = "," THEN p ELSE FirstComma(s, p + 1)

RECURSIVE Split(_)
\* s.split(/,\s?/)
Split(s) ==
  LET j == FirstComma(s, 1)
      e == IF j < Len(s) /\ j > 0 /\ s[j + 1] \in WhiteSpace THEN j + 1 ELSE j
  IN IF j = 0 THEN <<s>>
     ELSE <<SubSeq(s, 1, j - 1)>> \o Split(SubSeq(s, e + 1, Len(s)))

\* array.slice(1)
Slice1(a) == IF Len(a) = 0 THEN <<>> ELSE Tail(a)

\* a[k] of JavaScript with a 0-based index k
At(a, k) == IF k + 1 <= Len(a) THEN a[k + 1] ELSE Undef

\* a ?? b
Coalesce(a, b) == IF a.t \in {"undef", "null"} THEN b ELSE a

\* outcome of a call that ends in an exception
Throw == [t |-> "throw", v |-> 0]

\* --------------------------------------------------------------- Creature
\* new Creature({ name }): a blank creature with only the name set
NewCreature(name) ==
  [name |-> name, hp |-> Undef, ac |-> Undef, modifier |-> Undef, xp |-> Undef]

\* Creature.from(existing): a fresh creature holding the template's stats
CreatureFrom(existing) ==
  [name |-> existing.name, hp |-> existing.hp, ac |-> existing.ac,
   modifier |-> existing.modifier, xp |-> existing.xp]

\* a == b on two stat or name values of creatures
StatEq(a, b) ==
  CASE a.t \in {"undef", "null"} -> b.t \in {"undef", "null"}
    [] b.t \in {"undef", "null"} -> FALSE
    [] a.t = "nan" \/ b.t = "nan" -> FALSE
    [] a.t = b.t -> a.v = b.v
    [] OTHER -> LooseEq(a, b)

equivalent(creature, existing) ==
  /\ StatEq(creature.name, existing.name)
  /\ StatEq(creature.ac, existing.ac)
  /\ StatEq(creature.hp, existing.hp)
  /\ StatEq(creature.modifier, existing.modifier)
  /\ StatEq(creature.xp, existing.xp)

\* ------------------------------------------------------- parseRawCreature
RECURSIVE FlatEntries(_)
\* Object.entries(raw).flat(): key, value, key, value, ...
FlatEntries(kv) ==
  IF Len(kv) = 0 THEN <<>>
  ELSE <<Str(kv[1][1]), kv[1][2]>> \o FlatEntries(Tail(kv))

\* Object.entries of an object (its pairs) or of an array (index, element)
Entries(raw) ==
  IF raw.t = "arr"
  THEN [k \in 1..Len(raw.v) |-> <<NatToStr(k - 1), raw.v[k]>>]
  ELSE raw.v

\* first template of the bestiary with c.name == name, or undefined
BestiaryFind(bestiary, name) ==
  IF \E k \in 1..Len(bestiary) : StatEq(bestiary[k].name, name)
  THEN [t |-> "creature",
        v |-> bestiary[CHOOSE k \in 1..Len(bestiary) :
                         /\ StatEq(bestiary[k].name, name)
                         /\ \A j \in 1..(k - 1) : ~StatEq(bestiary[j].name, name)]]
  ELSE Undef

\* lines 152-154: the count of a string line from group 1 of the match
MatchNumber(g1) ==
  IF isNaN(Coalesce(g1, Null)) THEN Num(1) ELSE ToNumber(g1)

\* lines 164-172: dice guard and normalisation of the count
NormalizeNumber(number, canUseDiceRoller) ==
  LET n1 == IF TypeOf(number) = "string" /\ ~canUseDiceRoller /\ DiceTest(number.v)
            THEN Num(1) ELSE number
      n2 == IF ~isNaN(n1) THEN ToNumber(n1) ELSE n1
  IN IF ~Truthy(n2) \/ (TypeOf(n2) = "number" /\ n2.t = "num" /\ n2.v < 1)
     THEN Num(1) ELSE n2

\* lines 175-178: one stat position of the split line
StatOf(v) == IF isNaN(Str(v)) THEN Null ELSE ToNumber(Str(v))

\* lines 174-191: the creature of a line whose text is monster
BuildCreature(monster, number, bestiary) ==
  LET parts == Split(monster)
      name == Str(parts[1])
      stats == [k \in 1..Len(Slice1(parts)) |-> StatOf(Slice1(parts)[k])]
      hp == At(stats, 0)
      ac == At(stats, 1)
      mod == At(stats, 2)
      xp == At(stats, 3)
      existing == BestiaryFind(bestiary, name)
      creature == IF Truthy(existing) THEN CreatureFrom(existing.v)
                  ELSE NewCreature(name)
  IN IF ~Truthy(name) THEN [t |-> "none", v |-> 0]
     ELSE [t |-> "parsed",
           v |-> [creature |-> [name |-> creature.name,
                                hp |-> Coalesce(hp, creature.hp),
                                ac |-> Coalesce(ac, creature.ac),
                                modifier |-> Coalesce(mod, creature.modifier),
                                xp |-> Coalesce(xp, creature.xp)],
                  number |-> number]]

\* parseRawCreature(raw): {} ("none"), { creature, number } ("parsed") or an
\* exception (Throw)
parseRawCreature(raw, bestiary, canUseDiceRoller) ==
  IF ~Truthy(raw) THEN [t |-> "none", v |-> 0]
  ELSE
    LET isStr == TypeOf(raw) = "string"
        isObj == TypeOf(raw) = "object"
        match == IF isStr THEN RawMatch(raw.v) ELSE Null
        entries == IF isObj THEN FlatEntries(Entries(raw)) ELSE <<>>
        number0 == IF isStr THEN MatchNumber(match.v[1])
                   ELSE IF isObj THEN At(entries, 0)
                   ELSE Num(1)
        monster == IF isStr THEN match.v[2]
                   ELSE IF isObj THEN At(entries, 1)
                   ELSE Undef
    IN IF isStr /\ match = Null THEN Throw
       ELSE IF ~Truthy(monster) THEN [t |-> "none", v |-> 0]
       ELSE IF TypeOf(monster) # "string" THEN Throw
       ELSE BuildCreature(monster.v,
                          NormalizeNumber(number0, canUseDiceRoller), bestiary)

\* ------------------------------------------------------ parseRawCreatures
\* a + b of JavaScript for a number a
Plus(a, b) ==
  IF b.t = "num" THEN Num(a.v + b.v)
  ELSE Str(ToStringJS(a) \o ToStringJS(b))

\* mutant: the deferred text is built with the accumulated count first
MergeAmountExistingFirst(number, existingCount) ==
  IF ~isNaN(number) /\ ~isNaN(existingCount)
  THEN Plus(ToNumber(number), existingCount)
  ELSE Str(ToStringJS(existingCount) \o <<" ", "+", " ">> \o ToStringJS(number))

\* lines 131-138: the merged count of a creature that is already in the map
MergeAmount(number, existingCount) ==
  IF ~isNaN(number) /\ ~isNaN(existingCount)
  THEN Plus(ToNumber(number), existingCount)
  ELSE Str(ToStringJS(number) \o <<" ", "+", " ">> \o ToStringJS(existingCount))

\* mutant: the map is asked for the fresh creature object itself
\* (creatureMap.has(creature)), which is never a key
FindExistingByIdentity(map, stats) == 0

\* index of the first entry of the map whose key is equivalent to stats, or 0
FindExisting(map, stats) ==
  IF \E k \in 1..Len(map) : equivalent(map[k].key, stats)
  THEN CHOOSE k \in 1..Len(map) :
         /\ equivalent(map[k].key, stats)
         /\ \A j \in 1..(k - 1) : ~equivalent(map[j].key, stats)
  ELSE 0

\* mutant: the count of a repeated creature is overwritten instead of merged
MapStepOverwrite(map, creature, number) ==
  LET stats == [name |-> creature.name, ac |-> creature.ac, hp |-> creature.hp,
                modifier |-> creature.modifier, xp |-> creature.xp]
      e == FindExisting(map, stats)
  IN IF e = 0 THEN Append(map, [key |-> creature, count |-> number])
     ELSE [map EXCEPT ![e].count = number]

\* lines 118-141: one iteration of the loop for a parsed { creature, number }
MapStep(map, creature, number) ==
  LET stats == [name |-> creature.name, ac |-> creature.ac, hp |-> creature.hp,
                modifier |-> creature.modifier, xp |-> creature.xp]
      e == FindExisting(map, stats)
  IN IF e = 0 THEN Append(map, [key |-> creature, count |-> number])
     ELSE [map EXCEPT ![e].count = MergeAmount(number, map[e].count)]

\* ------------------------------------------------------------ parsePlayers
sNone == <<"n", "o", "n", "e">>
sPlayers == <<"p", "l", "a", "y", "e", "r", "s">>
sCreatures == <<"c", "r", "e", "a", "t", "u", "r", "e", "s">>

\* this.plugin.data.players.map((p) => p.name)
RosterNames(roster) == [k \in 1..Len(roster) |-> Str(roster[k].name)]

RECURSIVE SelectSeq2(_, _)
\* Array.prototype.filter with the predicate given as the set of kept elements
SelectSeq2(a, keep) ==
  IF Len(a) = 0 THEN <<>>
  ELSE (IF a[1] \in keep THEN <<a[1]>> ELSE <<>>) \o SelectSeq2(Tail(a), keep)

\* parsePlayers(params): an array of names, undefined, or an exception
parsePlayers(params, roster) ==
  LET players == params.v.players
  IN IF LooseEq(players, Str(sNone)) \/ LooseEq(players, Bool(FALSE))
     THEN Arr(<<>>)
     ELSE IF ~Truthy(players) \/ LooseEq(players, Bool(TRUE))
     THEN Arr(RosterNames(roster))
     ELSE IF TypeOf(players) = "string" THEN Arr(<<players>>)
     ELSE IF players.t = "arr"
     THEN IF Len(roster) > 0 /\ \E k \in 1..Len(players.v) : players.v[k].t # "str"
          THEN Throw
          ELSE LET lowered == {toLowerCase(players.v[k].v) : k \in 1..Len(players.v)}
                   keep == {n \in {Str(roster[k].name) : k \in 1..Len(roster)} :
                              toLowerCase(n.v) \in lowered}
               IN Arr(SelectSeq2(RosterNames(roster), keep))
     ELSE Undef

\* --------------------------------------------------------------- parseHide
\* mutant: the field is returned without being filtered against the two
\* section names
parseHideUnfiltered(params) ==
  IF params.t = "null" \/ params.v.hide = Undef THEN <<>>
  ELSE IF TypeOf(params.v.hide) = "string" THEN <<params.v.hide>>
  ELSE IF params.v.hide.t = "arr" THEN params.v.hide.v
  ELSE <<>>

\* a field that is absent reads as undefined; the decoder never produces an
\* undefined value for a present field, so `"hide" in params` is hide # Undef
parseHide(params) ==
  LET both == <<Str(sCreatures), Str(sPlayers)>>
  IN IF params.t = "null" \/ params.v.hide = Undef THEN <<>>
     ELSE IF TypeOf(params.v.hide) = "string"
     THEN SelectSeq2(both, {params.v.hide})
     ELSE IF params.v.hide.t = "arr"
     THEN SelectSeq2(both, {params.v.hide.v[k] : k \in 1..Len(params.v.hide.v)})
     ELSE <<>>

\* lines 65-67: the levels of the roster that are truthy
PlayerLevels(roster) ==
  SelectSeq2([k \in 1..Len(roster) |-> roster[k].level],
             {roster[k].level : k \in {j \in 1..Len(roster) : Truthy(roster[j].level)}})

\* ------------------------------------------- the calls as pure functions
RECURSIVE parseRawCreaturesUpTo(_, _, _, _)
\* the creature map after the first k iterations of the loop of
\* parseRawCreatures, or Throw when one of them raised
parseRawCreaturesUpTo(raws, k, best, dice) ==
  IF k = 0 THEN [t |-> "map", v |-> <<>>]
  ELSE LET before == parseRawCreaturesUpTo(raws, k - 1, best, dice)
           r == parseRawCreature(raws[k], best, dice)
       IN IF before = Throw \/ r = Throw THEN Throw
          ELSE IF r.t = "none" THEN before
          ELSE [t |-> "map", v |-> MapStep(before.v, r.v.creature, r.v.number)]

\* parseRawCreatures(rawMonsters)
parseRawCreatures(rawMonsters, best, dice) ==
  IF Truthy(rawMonsters) /\ rawMonsters.t = "arr"
  THEN parseRawCreaturesUpTo(rawMonsters.v, Len(rawMonsters.v), best, dice)
  ELSE [t |-> "map", v |-> <<>>]

\* parse(params): the returned record, or Throw
parse(p, rost, best, dice) ==
  IF p.t = "null" THEN Throw
  ELSE LET pl == parsePlayers(p, rost)
           cm == parseRawCreatures(Coalesce(p.v.creatures, Arr(<<>>)), best, dice)
       IN IF pl = Throw \/ cm = Throw THEN Throw
          ELSE [t |-> "result",
                v |-> [name |-> p.v.name,
                       players |-> pl,
                       hide |-> parseHide(p),
                       creatures |-> cm.v,
                       xp |-> Coalesce(p.v.xp, Null),
                       playerLevels |-> PlayerLevels(rost)]]

\* ------------------------------------------------------------------ inputs
sG == <<"G">>
sAl == <<"A", "l">>
sBo == <<"b", "o">>
sGoblinLine == <<"G", "o", "b", "l", "i", "n", ",", " ", "7", ",", " ", "1", "5",
                 ",", " ", "2", ",", " ", "5", "0">>

\* all sequences over S of length at most n
SeqsUpTo(S, n) == UNION {[1..k -> S] : k \in 0..n}

\* this.plugin.data.players
RosterPool ==
  { <<>>,
    <<[name |-> sAl, level |-> Num(3)], [name |-> sBo, level |-> Undef]>>,
    <<[name |-> <<"N", "o", "n", "e">>, level |-> Num(1)],
      [name |-> <<"1">>, level |-> Num(0)],
      [name |-> <<"0">>, level |-> Num(2)],
      [name |-> <<"a", "l">>, level |-> Num(2)]>> }

\* this.plugin.bestiary
BestiaryPool ==
  { <<>>,
    <<[name |-> Str(sG), hp |-> Num(7), ac |-> Num(15), modifier |-> Num(2),
       xp |-> Num(50)]>> }

\* values of the players field
PlayerElems ==
  {Str(sNone), Str(<<"0">>), Str(<<"1">>), Str(<<"A", "L">>), Str(sBo),
   Str(<<"z">>), Num(7)}
PlayersPool ==
  {Undef, Null, Bool(TRUE), Bool(FALSE), Num(7), Obj(<<>>),
   Str(sNone), Str(<<>>), Str(<<" ">>), Str(<<"0">>), Str(<<"1">>), Str(sAl)}
    \cup {Arr(a) : a \in SeqsUpTo(PlayerElems, MaxArrayLen)}

\* values of the hide field
HideElems == {Str(sPlayers), Str(sCreatures), Str(<<"b", "o", "g", "u", "s">>), Num(1)}
HidePool ==
  {Undef, Null, Num(1), Bool(TRUE), Obj(<<>>),
   Str(sPlayers), Str(sCreatures), Str(<<"b", "o", "g", "u", "s">>), Str(<<>>)}
    \cup {Arr(a) : a \in SeqsUpTo(HideElems, MaxArrayLen)}

\* raw creature lines: every text over LineAlphabet up to MaxLineLen
LineAlphabet == {"0", "1", "G", ":", " ", ",", "\n"}
Lines == SeqsUpTo(LineAlphabet, MaxLineLen)

\* raw creature entries that are merged with each other
MergePool ==
  {Str(<<"2", " ", "G">>), Str(<<"3", ":", "G">>), Str(<<"G", ",", "7">>),
   Obj(<< <<(<<"2", "d", "4">>), Str(sG)>> >>),
   Obj(<< <<(<<"3">>), Str(sG)>> >>),
   Str(<<"0", "H">>)}

\* raw creature entries of the other shapes
ShapePool ==
  {Str(sGoblinLine), Num(5), Bool(TRUE), Null,
   Obj(<<>>), Obj(<< <<(<<"2">>), Num(5)>> >>), Obj(<< <<(<<>>), Str(sG)>> >>),
   Obj(<< <<(<<"1">>), Str(<<>>)>> >>),
   Obj(<< <<(<<"1">>), Str(sG)>>, <<(<<"2">>), Str(<<"H">>)>> >>),
   Arr(<<>>), Arr(<<Str(sG)>>), Arr(<<Arr(<<Str(sG)>>)>>)}

\* values of the creatures field
CreaturesPool ==
  {Undef, Null, Str(sG), Num(3)}
    \cup {Arr(<<Str(l)>>) : l \in Lines}
    \cup {Arr(<<e>>) : e \in ShapePool}
    \cup {Arr(a) : a \in SeqsUpTo(MergePool, MaxEntries)}

Params(name, players, hide, creatures, xp) ==
  [t |-> "params",
   v |-> [name |-> name, players |-> players, hide |-> hide,
          creatures |-> creatures, xp |-> xp]]

\* a segment of the source block: blank after trim, rejected by parseYaml
\* ("bad"), or decoded by parseYaml to params
Blank == [kind |-> "blank", params |-> Null]
Bad == [kind |-> "bad", params |-> Null]
Yaml(p) == [kind |-> "yaml", params |-> p]

\* segments of a block with several encounters
SegmentPool ==
  {Blank, Bad, Yaml(Null),
   Yaml(Params(Str(sG), Undef, Undef, Arr(<<Str(<<"2", " ", "G">>)>>), Undef)),
   Yaml(Params(Str(sAl), Str(sNone), Str(sPlayers), Undef, Num(100))),
   Yaml(Params(Undef, Undef, Undef, Arr(<<Str(<<"\n">>)>>), Undef))}

\* The blocks and environments the model starts from, <<roster, bestiary,
\* canUseDiceRoller, src>>. parsePlayers reads only the roster, parseHide
\* neither collaborator, parseRawCreatures only the bestiary and the dice
\* flag, so each field ranges over its pool with the collaborators it reads.
PlayersInputs ==
  {<<r, <<>>, TRUE, <<Yaml(Params(Undef, p, Undef, Undef, Undef))>> >> :
     r \in RosterPool, p \in PlayersPool}
HideInputs ==
  {<<(<<>>), <<>>, TRUE, <<Yaml(Params(Undef, Undef, h, Undef, Undef))>> >> :
     h \in HidePool}
CreaturesInputs ==
  {<<(<<>>), b, d, <<Yaml(Params(Undef, Undef, Undef, c, Undef))>> >> :
     b \in BestiaryPool, d \in BOOLEAN, c \in CreaturesPool}
BlockInputs ==
  {<<r, b, FALSE, s>> :
     r \in {q \in RosterPool : Len(q) = 2},
     b \in {q \in BestiaryPool : Len(q) = 1},
     s \in SeqsUpTo(SegmentPool, MaxSegments)}
InputPool == PlayersInputs \cup HideInputs \cup CreaturesInputs \cup BlockInputs

\* ------------------------------------------------------------------- state
VARIABLES
  roster,            \* plugin.data.players
  bestiary,          \* plugin.bestiary
  canUseDiceRoller,  \* plugin.canUseDiceRoller
  src,               \* this.src.split("---")
  idx,               \* position of the for loop of postprocessTable
  pc,                \* postprocessTable: "loop", "await", "done"
  encounters,        \* the collected ParsedParams
  notices,           \* segments a Notice was shown for
  emptyDetached,     \* empty.detach() was called
  ppc,               \* parse: "idle", "players", "hide", "creatures",
                     \*        "returned", "threw"
  params,            \* parse: its argument
  players,           \* parse: const players
  hide,              \* parse: const hide
  creatureMap,       \* parseRawCreatures: creatureMap
  ci,                \* parseRawCreatures: position of the for loop
  result             \* parse: the returned record

vars == <<roster, bestiary, canUseDiceRoller, src, idx, pc, encounters, notices,
          emptyDetached, ppc, params, players, hide, creatureMap, ci, result>>

env == <<roster, bestiary, canUseDiceRoller, src>>
locals == <<params, players, hide, creatureMap, ci, result>>

NoResult == [t |-> "none", v |-> 0]

Init ==
  /\ \E input \in InputPool :
        /\ roster = input[1]
        /\ bestiary = input[2]
        /\ canUseDiceRoller = input[3]
        /\ src = input[4]
  /\ idx = 1
  /\ pc = "loop"
  /\ encounters = <<>>
  /\ notices = <<>>
  /\ emptyDetached = FALSE
  /\ ppc = "idle"
  /\ params = Null
  /\ players = Undef
  /\ hide = <<>>
  /\ creatureMap = <<>>
  /\ ci = 1
  /\ result = NoResult

\* ------------------------------------------------- EncounterParser.parse
\* line 60: params.creatures ?? []
RawMonsters == Coalesce(params.v.creatures, Arr(<<>>))

\* line 112: rawMonsters && Array.isArray(rawMonsters)
LoopRuns == Truthy(RawMonsters) /\ RawMonsters.t = "arr"

\* line 58
ParsePlayers ==
  /\ ppc = "players"
  /\ LET r == parsePlayers(params, roster)
     IN IF r = Throw
        THEN /\ ppc' = "threw"
             /\ UNCHANGED players
        ELSE /\ ppc' = "hide"
             /\ players' = r
  /\ UNCHANGED <<env, idx, pc, encounters, notices, emptyDetached, params, hide,
                 creatureMap, ci, result>>

\* lines 59-60 and 111
ParseHide ==
  /\ ppc = "hide"
  /\ hide' = parseHide(params)
  /\ creatureMap' = <<>>
  /\ ci' = 1
  /\ ppc' = "creatures"
  /\ UNCHANGED <<env, idx, pc, encounters, notices, emptyDetached, params,
                 players, result>>

\* lines 113-142: one iteration of the loop of parseRawCreatures
CreatureStep ==
  /\ ppc = "creatures"
  /\ LoopRuns
  /\ ci <= Len(RawMonsters.v)
  /\ LET r == parseRawCreature(RawMonsters.v[ci], bestiary, canUseDiceRoller)
     IN CASE r.t = "throw" ->
               /\ ppc' = "threw"
               /\ UNCHANGED <<creatureMap, ci>>
          [] r.t = "none" ->
               /\ ci' = ci + 1
               /\ UNCHANGED <<creatureMap, ppc>>
          [] r.t = "parsed" ->
               /\ creatureMap' = MapStep(creatureMap, r.v.creature, r.v.number)
               /\ ci' = ci + 1
               /\ UNCHANGED ppc
  /\ UNCHANGED <<env, idx, pc, encounters, notices, emptyDetached, params,
                 players, hide, result>>

\* lines 64-76: the record parse returns
Assemble ==
  /\ ppc = "creatures"
  /\ IF LoopRuns THEN ci > Len(RawMonsters.v) ELSE TRUE
  /\ result' = [t |-> "result",
                v |-> [name |-> params.v.name,
                       players |-> players,
                       hide |-> hide,
                       creatures |-> creatureMap,
                       xp |-> Coalesce(params.v.xp, Null),
                       playerLevels |-> PlayerLevels(roster)]]
  /\ ppc' = "returned"
  /\ UNCHANGED <<env, idx, pc, encounters, notices, emptyDetached, params,
                 players, hide, creatureMap, ci>>

\* ------------------------------------- EncounterBlock.postprocessTable
ResetLocals ==
  /\ params' = Null
  /\ players' = Undef
  /\ hide' = <<>>
  /\ creatureMap' = <<>>
  /\ ci' = 1
  /\ result' = NoResult

\* line 281: a segment that is empty after trim is skipped
SkipBlank ==
  /\ pc = "loop"
  /\ idx <= Len(src)
  /\ src[idx].kind = "blank"
  /\ idx' = idx + 1
  /\ UNCHANGED <<env, pc, encounters, notices, emptyDetached, ppc, locals>>

\* lines 283 and 285-291: parseYaml throws, the catch block shows a notice
DecodeFails ==
  /\ pc = "loop"
  /\ idx <= Len(src)
  /\ src[idx].kind = "bad"
  /\ notices' = Append(notices, idx)
  /\ idx' = idx + 1
  /\ UNCHANGED <<env, pc, encounters, emptyDetached, ppc, locals>>

\* lines 283-284 and 57: parseYaml returns and parse is called; reading
\* params.name of a null params throws
CallParse ==
  /\ pc = "loop"
  /\ idx <= Len(src)
  /\ src[idx].kind = "yaml"
  /\ params' = src[idx].params
  /\ ppc' = IF src[idx].params.t = "null" THEN "threw" ELSE "players"
  /\ pc' = "await"
  /\ UNCHANGED <<env, idx, encounters, notices, emptyDetached, players, hide,
                 creatureMap, ci, result>>

\* line 284: the awaited parse has returned, its record is pushed
AwaitReturns ==
  /\ pc = "await"
  /\ ppc = "returned"
  /\ encounters' = Append(encounters, result.v)
  /\ idx' = idx + 1
  /\ pc' = "loop"
  /\ ppc' = "idle"
  /\ ResetLocals
  /\ UNCHANGED <<env, notices, emptyDetached>>

\* mutant: the try block encloses the loop, a failing parse ends it
AwaitThrowsAborts ==
  /\ pc = "await"
  /\ ppc = "threw"
  /\ notices' = Append(notices, idx)
  /\ pc' = "done"
  /\ ppc' = "idle"
  /\ ResetLocals
  /\ UNCHANGED <<env, idx, encounters, emptyDetached>>

\* lines 285-291: the awaited parse has thrown, the catch block shows a notice
AwaitThrows ==
  /\ pc = "await"
  /\ ppc = "threw"
  /\ notices' = Append(notices, idx)
  /\ idx' = idx + 1
  /\ pc' = "loop"
  /\ ppc' = "idle"
  /\ ResetLocals
  /\ UNCHANGED <<env, encounters, emptyDetached>>

\* lines 293-302: after the loop
Finish ==
  /\ pc = "loop"
  /\ idx > Len(src)
  /\ emptyDetached' = (Len(encounters) > 0)
  /\ pc' = "done"
  /\ UNCHANGED <<env, idx, encounters, notices, ppc, locals>>

Next ==
  \/ SkipBlank
  \/ DecodeFails
  \/ CallParse
  \/ ParsePlayers
  \/ ParseHide
  \/ CreatureStep
  \/ Assemble
  \/ AwaitReturns
  \/ AwaitThrows
  \/ Finish

Spec == Init /\ [][Next]_vars

\* ================================================================== claims
Elems(a) == {a[k] : k \in 1..Len(a)}

\* the parse in progress has handled the first ci - 1 raw creature entries
InLoop == ppc = "creatures" /\ LoopRuns

\* C1: parse never raises: for a parameter object of any shape the call
\* returns a record instead of throwing.
C1_ParseNeverRaises == ~(ppc = "threw" /\ params.t = "params")

DistinctKeys(map) ==
  \A a \in 1..Len(map) : \A b \in 1..Len(map) :
     a # b => ~( /\ map[a].key.name = map[b].key.name
                 /\ map[a].key.ac = map[b].key.ac
                 /\ map[a].key.hp = map[b].key.hp
                 /\ map[a].key.modifier = map[b].key.modifier
                 /\ map[a].key.xp = map[b].key.xp )
\* C2: at every step of the loop of parseRawCreatures, and in every returned
\* record, no two keys of the creature map are equivalent under the
\* five-field comparison.
C2_KeysDistinct ==
  /\ DistinctKeys(creatureMap)
  /\ \A k \in 1..Len(encounters) : DistinctKeys(encounters[k].creatures)

\* three entries were processed, one of them merged into an earlier key
C2_Witness == InLoop /\ ci = 4 /\ Len(creatureMap) = 2

NoNameLine(s) ==
  \/ s = <<>>
  \/ Len(s) >= 1 /\ AllDigits(s)
  \/ Len(s) >= 2 /\ AllDigits(SubSeq(s, 1, Len(s) - 1)) /\ s[Len(s)] \in {":", " "}
\* C3: a raw line from which no name can be extracted (the empty string, or
\* a digit sequence optionally followed by a colon or a space) yields no
\* creature: the map stays as it was.
C3_NoNameNoEntry ==
  ( /\ InLoop
    /\ ci > 1
    /\ \A k \in 1..(ci - 1) :
          RawMonsters.v[k].t = "str" /\ NoNameLine(RawMonsters.v[k].v) )
    => creatureMap = <<>>

\* C4: an entry with count "2d4" followed by an entry of the same creature
\* with count 3 merges to "2d4 + 3" when the dice capability is enabled, and
\* to the number 4 when it is disabled.
TwoD4Entry == Obj(<< <<(<<"2", "d", "4">>), Str(sG)>> >>)
ThreeEntries == {Str(<<"3", ":", "G">>), Obj(<< <<(<<"3">>), Str(sG)>> >>)}
C4_Case ==
  /\ InLoop
  /\ ci = 3
  /\ Len(RawMonsters.v) = 2
  /\ RawMonsters.v[1] = TwoD4Entry
  /\ RawMonsters.v[2] \in ThreeEntries
C4_Original ==
  C4_Case =>
    /\ Len(creatureMap) = 1
    /\ creatureMap[1].count =
         IF canUseDiceRoller THEN Str(<<"2", "d", "4", " ", "+", " ", "3">>)
         ELSE Num(4)
\* C4 (amended): the merged count is "3 + 2d4" (the later count first) when
\* the dice capability is enabled, and the number 4 when it is disabled.
C4_Amended ==
  C4_Case =>
    /\ Len(creatureMap) = 1
    /\ creatureMap[1].count =
         IF canUseDiceRoller THEN Str(<<"3", " ", "+", " ", "2", "d", "4">>)
         ELSE Num(4)
C4_Witness == C4_Case /\ canUseDiceRoller /\ creatureMap[1].count.t = "str"

RECURSIVE RosterMatches(_, _)
RosterMatches(rost, wanted) ==
  IF Len(rost) = 0 THEN <<>>
  ELSE (IF \E w \in wanted : toLowerCase(w.v) = toLowerCase(rost[1].name)
        THEN <<Str(rost[1].name)>> ELSE <<>>) \o RosterMatches(Tail(rost), wanted)
\* C5: for an array of strings parsePlayers returns exactly the roster names
\* that case-insensitively equal some element, in roster order.
C5_ArrayOfStrings ==
  ( /\ ppc \in {"hide", "threw"}
    /\ params.t = "params"
    /\ params.v.players.t = "arr"
    /\ \A e \in Elems(params.v.players.v) : e.t = "str" )
    => /\ ppc = "hide"
       /\ players = Arr(RosterMatches(roster, Elems(params.v.players.v)))

\* C6: for a single string other than "none" parsePlayers returns the
\* one-element list holding that string.
C6_SingleString ==
  ( /\ ppc = "hide"
    /\ params.v.players.t = "str"
    /\ params.v.players.v # sNone )
    => players = Arr(<<params.v.players>>)

\* C7: parseHide returns only "players" and "creatures": nothing when the
\* field is absent or neither a string nor an array, the field itself when it
\* is one of the two strings, and for an array those of the two that occur
\* in it.
HideValues == {Str(sPlayers), Str(sCreatures)}
C7_HideShapes ==
  ppc \in {"creatures", "returned"} =>
    LET h == params.v.hide
    IN /\ Elems(hide) \subseteq HideValues
       /\ Len(hide) = Cardinality(Elems(hide))
       /\ h.t \notin {"str", "arr"} => hide = <<>>
       /\ h.t = "str" => Elems(hide) = (IF h \in HideValues THEN {h} ELSE {})
       /\ h.t = "arr" => Elems(hide) = HideValues \cap Elems(h.v)
\* an array naming one valid and one unknown section
C7_Witness ==
  /\ ppc = "creatures"
  /\ params.v.hide.t = "arr"
  /\ Len(params.v.hide.v) = 2
  /\ Cardinality(Elems(params.v.hide.v) \ HideValues) = 1
  /\ Len(hide) = 1

RECURSIVE FoldCount(_, _)
\* counts: the counts of the lines of one creature, in input order
FoldCount(counts, k) ==
  IF k = 1 THEN counts[1]
  ELSE LET acc == FoldCount(counts, k - 1)
           new == counts[k]
       IN IF new.t = "num" /\ acc.t = "num" THEN Num(new.v + acc.v)
          ELSE Str((IF new.t = "num" THEN NatToStr(new.v) ELSE new.v)
                     \o <<" ", "+", " ">>
                     \o (IF acc.t = "num" THEN NatToStr(acc.v) ELSE acc.v))
RECURSIVE CountsOf(_, _, _)
\* the counts of the first k raw entries whose creature has the stats of key
CountsOf(raws, k, key) ==
  IF k = 0 THEN <<>>
  ELSE LET r == parseRawCreature(raws[k], bestiary, canUseDiceRoller)
       IN CountsOf(raws, k - 1, key)
            \o (IF r.t = "parsed" /\ r.v.creature = key THEN <<r.v.number>> ELSE <<>>)
\* C8: the count of a key is the strict left fold of the counts of the lines
\* equivalent to it: the sum when the new and the accumulated count are both
\* numeric, otherwise the text "<new> + <accumulated>".
C8_LeftFoldMerge ==
  InLoop =>
    \A e \in 1..Len(creatureMap) :
       LET counts == CountsOf(RawMonsters.v, ci - 1, creatureMap[e].key)
       IN /\ Len(counts) >= 1
          /\ creatureMap[e].count = FoldCount(counts, Len(counts))
\* three lines of one creature were folded into a deferred text
C8_Witness ==
  /\ InLoop /\ ci = 4 /\ Len(creatureMap) = 1
  /\ creatureMap[1].count =
       Str(<<"3", " ", "+", " ", "2", " ", "+", " ", "2", "d", "4">>)

RECURSIVE CommaSplit(_)
CommaSplit(s) ==
  LET j == FirstComma(s, 1)
  IN IF j = 0 THEN <<s>>
     ELSE <<SubSeq(s, 1, j - 1)>> \o CommaSplit(SubSeq(s, j + 1, Len(s)))
ClaimedStat(parts, k, default) ==
  IF k <= Len(parts) /\ Len(Trim(parts[k])) > 0 /\ AllDigits(Trim(parts[k]))
  THEN Num(DigitsToNat(Trim(parts[k]))) ELSE default
ClaimedCreature(line) ==
  LET parts == CommaSplit(RawMatch(line).v[2].v)
      name == Str(Trim(parts[1]))
      found == BestiaryFind(bestiary, name)
      base == IF found.t = "creature" THEN found.v ELSE NewCreature(name)
  IN [name |-> name,
      hp |-> ClaimedStat(parts, 2, base.hp),
      ac |-> ClaimedStat(parts, 3, base.ac),
      modifier |-> ClaimedStat(parts, 4, base.modifier),
      xp |-> ClaimedStat(parts, 5, base.xp)]
\* C9: the name of a string line is the trimmed text before the first comma
\* of the remainder; hp, ac, modifier, xp are the numbers at positions 1 to 4
\* and a position that is empty, not numeric or missing keeps the template's
\* (or the blank creature's) value.
C9_LineFields ==
  ( /\ InLoop
    /\ ci = 2
    /\ RawMonsters.v[1].t = "str"
    /\ Len(creatureMap) = 1 )
    => creatureMap[1].key = ClaimedCreature(RawMonsters.v[1].v)

Decoded(k) == src[k].kind = "yaml"
Outcome(k) == parse(src[k].params, roster, bestiary, canUseDiceRoller)
RECURSIVE ExpectedEncounters(_)
ExpectedEncounters(k) ==
  IF k = 0 THEN <<>>
  ELSE ExpectedEncounters(k - 1)
         \o (IF Decoded(k) /\ Outcome(k) # Throw THEN <<Outcome(k).v>> ELSE <<>>)
RECURSIVE ExpectedNotices(_)
ExpectedNotices(k) ==
  IF k = 0 THEN <<>>
  ELSE ExpectedNotices(k - 1)
         \o (IF src[k].kind = "bad" \/ (Decoded(k) /\ Outcome(k) = Throw)
             THEN <<k>> ELSE <<>>)
\* C10: the collected encounters are the parse results of exactly the
\* non-blank segments whose decode and parse both succeed, in source order;
\* every failing segment gives one notice and stops nothing; a parse is
\* finished before the loop goes on.
C10_TableOrder ==
  /\ encounters = ExpectedEncounters(idx - 1)
  /\ notices = ExpectedNotices(idx - 1)
  /\ pc \in {"loop", "done"} => ppc = "idle"
  /\ pc = "done" => idx = Len(src) + 1
\* a failed first segment was followed by two collected ones
C10_Witness ==
  /\ pc = "done" /\ Len(src) = 3
  /\ notices = <<1>> /\ Len(encounters) = 2
  /\ encounters[1] # encounters[2]

====
